---- MODULE Spec2Model ----
(***************************************************************************)
(* Model of magenta/models/music_vae/js/data.ts: the DataConverter classes *)
(* that convert between quantized NoteSequences and MusicVAE tensors.      *)
(*                                                                         *)
(* A behaviour is one use of one converter built by converterFromSpec: a   *)
(* call of toTensor on a caller-owned note sequence, and/or a call of the  *)
(* asynchronous toNoteSequence on a tensor.  toTensor is synchronous and   *)
(* is one action; toNoteSequence is split at each `await`.                 *)
(*                                                                         *)
(* Tensors and buffers are row-major flat arrays, indexed from 0 as in     *)
(* the typed arrays that back them.  Sequences of notes and the pitch      *)
(* class table are TLA+ sequences, indexed from 1.                         *)
(***************************************************************************)
EXTENDS Integers, Sequences, FiniteSets

VARIABLES
    conv,      \* spec.type given to converterFromSpec
    notes,     \* the caller's noteSequence.notes (argument of toTensor)
    tensor,    \* the tensor returned by toTensor / given to toNoteSequence
    decoded,   \* noteSequence.notes being built by toNoteSequence
    live,      \* temporary tensors created by toNoteSequence, not yet disposed
    s,         \* DrumRollConverter.toNoteSequence: the row being processed
    err,       \* the error thrown by the current call, "none" if none
    pc         \* position of the caller

vars == <<conv, notes, tensor, decoded, live, s, err, pc>>

----------------------------------------------------------------------------
(* Bounds of the model and configuration of the converters.                *)

NumSteps == 3          \* args.numSteps
MaxNotes == 2          \* longest note sequence given to toTensor
MinPitch == 60         \* args.minPitch of the MelodyConverter
MaxPitch == 61         \* args.maxPitch of the MelodyConverter

NOTE_OFF == 1
FIRST_PITCH == 2

\* args.pitchClasses: the first two pitches of the first two default classes.
PitchClasses == << <<36, 35>>, <<38, 27>> >>

\* Pitches of drum notes given to toTensor; 99 is in no class.
DrumPitches == {36, 35, 38, 99}

\* Pitches of melody notes given to toTensor: the range and one on each side.
MelodyPitches == (MinPitch - 1) .. (MaxPitch + 1)

----------------------------------------------------------------------------
(* Notes and tensors.                                                      *)

Note(p, start, end) ==
    [pitch |-> p, quantizedStartStep |-> start, quantizedEndStep |-> end]

\* this.depth of the MelodyConverter.
depth == MaxPitch - MinPitch + 3

\* dl.buffer(shape): a zero-filled flat array of the given size.
buffer(size) == [i \in 0 .. (size - 1) |-> 0]

\* TensorBuffer.set(value, ...locs) once locs is reduced to a flat index:
\* `this.values[index] = value` on a typed array, which ignores an index
\* outside the array.
BufSet(values, value, index) ==
    IF index \in DOMAIN values THEN [values EXCEPT ![index] = value] ELSE values

\* TensorBuffer.locToIndex for rank 2: the last coordinate plus the row's
\* stride; no coordinate is range-checked or wrapped.
locToIndex(cols, row, col) == col + cols * row

Tensor2D(rows, cols, values) == [rows |-> rows, cols |-> cols, values |-> values]

NoTensor == Tensor2D(0, 0, buffer(0))

At(t, row, col) == t.values[row * t.cols + col]

\* The values of row `row` of t, as a 0-based array.
Row(t, row) == [c \in 0 .. (t.cols - 1) |-> At(t, row, c)]

\* argMax of a 0-based array: the first index holding the largest value.
ArgMax(row) ==
    CHOOSE i \in DOMAIN row :
        /\ \A j \in DOMAIN row : row[j] <= row[i]
        /\ \A j \in DOMAIN row : j < i => row[j] < row[i]

\* oh.argMax(1) followed by data(): one label per row.
Labels(t) == [r \in 0 .. (t.rows - 1) |-> ArgMax(Row(t, r))]

----------------------------------------------------------------------------
(* MelodyConverter.toTensor                                                *)

IsSortedByStart(seq) ==
    \A i \in 1 .. (Len(seq) - 1) :
        seq[i].quantizedStartStep <= seq[i + 1].quantizedStartStep

Permutations(n) ==
    {f \in [1 .. n -> 1 .. n] : \A i, j \in 1 .. n : i # j => f[i] # f[j]}

\* The arrays Array.prototype.sort may leave in place of seq: every
\* rearrangement ordered by the comparator (the order of notes that compare
\* equal is left to the engine).
SortResults(seq) ==
    {r \in {[i \in 1 .. Len(seq) |-> seq[f[i]]] : f \in Permutations(Len(seq))} :
        IsSortedByStart(r)}

\* if (n.quantizedStartStep < lastEnd)
\* (the _Late variant misses an overlap of one step)
StartsBeforeLastEnd_Late(n, lastEnd) == n.quantizedStartStep + 1 < lastEnd
StartsBeforeLastEnd(n, lastEnd) == n.quantizedStartStep < lastEnd

\* if (n.pitch < this.minPitch || n.pitch > this.maxPitch)
\* (the _AboveOnly variant drops the test against minPitch)
PitchOutside_AboveOnly(n) == n.pitch > MaxPitch
PitchOutside(n) == n.pitch < MinPitch \/ n.pitch > MaxPitch

\* n.pitch - this.minPitch + this.FIRST_PITCH
\* (the _NoOffset variant forgets the two labels below the pitches)
NoteOnLabel_NoOffset(n) == n.pitch - MinPitch
NoteOnLabel(n) == n.pitch - MinPitch + FIRST_PITCH

\* State of the forEach over sortedNotes: the mel buffer, lastEnd and the
\* error thrown, if any.  A throw leaves the loop.
RECURSIVE MelodyFill(_, _, _)
MelodyFill(sortedNotes, i, st) ==
    IF i > Len(sortedNotes) \/ st.err # "none" THEN st
    ELSE LET n == sortedNotes[i] IN
         IF StartsBeforeLastEnd(n, st.lastEnd)
         THEN [st EXCEPT !.err = "NotMonophonic"]
         ELSE IF PitchOutside(n)
         THEN [st EXCEPT !.err = "OutOfRange"]
         ELSE MelodyFill(sortedNotes, i + 1,
                [mel |-> BufSet(BufSet(st.mel, NoteOnLabel(n),
                                       n.quantizedStartStep),
                                NOTE_OFF, n.quantizedEndStep),
                 lastEnd |-> n.quantizedEndStep,
                 err |-> "none"])

\* dl.oneHot(mel, depth): row r holds a 1 in column mel[r], 0 elsewhere.
oneHot(mel, d) ==
    Tensor2D(NumSteps, d,
        [i \in 0 .. (NumSteps * d - 1) |-> IF mel[i \div d] = i % d THEN 1 ELSE 0])

MelodyToTensor ==
    /\ conv = "MelodyConverter"
    /\ pc = "ready"
    /\ \E sortedNotes \in SortResults(notes) :
         LET st == MelodyFill(sortedNotes, 1,
                     [mel |-> buffer(NumSteps), lastEnd |-> -1, err |-> "none"])
         IN /\ notes' = sortedNotes      \* sort() orders the caller's array
            /\ err' = st.err
            /\ IF st.err = "none"
               THEN tensor' = oneHot(st.mel, depth) /\ pc' = "encoded"
               ELSE tensor' = NoTensor /\ pc' = "raised"
    /\ UNCHANGED <<conv, decoded, live, s>>

----------------------------------------------------------------------------
(* MelodyConverter.toNoteSequence                                          *)

\* pitch: label - this.FIRST_PITCH + this.minPitch
\* (the _NoOffset variant forgets the two labels below the pitches)
LabelPitch_NoOffset(label) == label + MinPitch
LabelPitch(label) == label - FIRST_PITCH + MinPitch

\* The scan over labels: st.currNote is <<>> for null, else <<note>>.
RECURSIVE MelodyScan(_, _, _)
MelodyScan(labels, step, st) ==
    IF step \notin DOMAIN labels
    THEN IF st.currNote # <<>>
         THEN Append(st.notes,
                [st.currNote[1] EXCEPT !.quantizedEndStep = step])
         ELSE st.notes
    ELSE LET label == labels[step] IN
         IF label = 0 THEN MelodyScan(labels, step + 1, st)
         ELSE IF label = 1
         THEN IF st.currNote # <<>>
              THEN MelodyScan(labels, step + 1,
                     [notes |-> Append(st.notes,
                          [st.currNote[1] EXCEPT !.quantizedEndStep = step]),
                      currNote |-> <<>>])
              ELSE MelodyScan(labels, step + 1, st)
         ELSE MelodyScan(labels, step + 1,
                [notes |-> IF st.currNote # <<>>
                           THEN Append(st.notes,
                                  [st.currNote[1] EXCEPT !.quantizedEndStep = step])
                           ELSE st.notes,
                 \* quantizedEndStep is unset until the note is closed
                 currNote |-> <<Note(LabelPitch(label), step, 0)>>])

\* const labelsTensor = oh.argMax(1); ... await labelsTensor.data()
MelodyArgMax ==
    /\ conv = "MelodyConverter"
    /\ pc = "encoded"
    /\ live' = live \cup {<<"labelsTensor", 0>>}
    /\ decoded' = <<>>
    /\ pc' = "await"
    /\ UNCHANGED <<conv, notes, tensor, s, err>>

\* data() resolves: dispose the labels tensor, scan, return the sequence.
MelodyDataResolved ==
    /\ conv = "MelodyConverter"
    /\ pc = "await"
    /\ live' = live \ {<<"labelsTensor", 0>>}
    /\ decoded' = MelodyScan(Labels(tensor), 0, [notes |-> <<>>, currNote |-> <<>>])
    /\ pc' = "done"
    /\ UNCHANGED <<conv, notes, tensor, s, err>>

\* data() rejects: the await throws and toNoteSequence rejects at once.
MelodyDataRejected ==
    /\ conv = "MelodyConverter"
    /\ pc = "await"
    /\ err' = "DataError"
    /\ pc' = "failed"
    /\ UNCHANGED <<conv, notes, tensor, decoded, live, s>>

----------------------------------------------------------------------------
(* DrumsConverter: constructor and toTensor (inherited by                  *)
(* DrumRollConverter)                                                      *)

NumClasses == Len(PitchClasses)

RegisteredPitches ==
    UNION {{PitchClasses[c][k] : k \in 1 .. Len(PitchClasses[c])} : c \in 1 .. NumClasses}

\* this.pitchToClass after the constructor's loop: classes are numbered from
\* 0 and a later class overwrites an earlier one.  A pitch outside the
\* domain reads as `undefined`.
pitchToClass ==
    [p \in RegisteredPitches |->
        CHOOSE c \in 0 .. (NumClasses - 1) :
            /\ \E k \in 1 .. Len(PitchClasses[c + 1]) : PitchClasses[c + 1][k] = p
            /\ \A c2 \in (c + 1) .. (NumClasses - 1) :
                   \A k \in 1 .. Len(PitchClasses[c2 + 1]) : PitchClasses[c2 + 1][k] # p]

\* for (i = 0; i < numSteps; ++i) drumRoll.set(1, i, -1)
RECURSIVE DrumRollInit(_, _, _)
DrumRollInit(values, cols, i) ==
    IF i >= NumSteps THEN values
    ELSE DrumRollInit(BufSet(values, 1, locToIndex(cols, i, -1)), cols, i + 1)

\* One iteration of noteSequence.notes.forEach.  With an unregistered pitch
\* the column is `undefined`, the flat index is NaN, and the first set
\* writes nothing.
DrumRollNote(values, cols, note) ==
    LET hit == IF note.pitch \in DOMAIN pitchToClass
               THEN BufSet(values, 1,
                      locToIndex(cols, note.quantizedStartStep, pitchToClass[note.pitch]))
               ELSE values
    IN BufSet(hit, 0, locToIndex(cols, note.quantizedStartStep, -1))

RECURSIVE DrumRollFill(_, _, _, _)
DrumRollFill(values, cols, seq, i) ==
    IF i > Len(seq) THEN values
    ELSE DrumRollFill(DrumRollNote(values, cols, seq[i]), cols, seq, i + 1)

DrumsToTensorResult(seq) ==
    LET cols == NumClasses + 1 IN
    Tensor2D(NumSteps, cols,
        DrumRollFill(DrumRollInit(buffer(NumSteps * cols), cols, 0), cols, seq, 1))

IsDrums == conv \in {"DrumsConverter", "DrumRollConverter"}

DrumsToTensor ==
    /\ IsDrums
    /\ pc = "ready"
    /\ tensor' = DrumsToTensorResult(notes)
    /\ pc' = "encoded"
    /\ UNCHANGED <<conv, notes, decoded, live, s, err>>

----------------------------------------------------------------------------
(* DrumsConverter.toNoteSequence                                           *)

\* pitch: this.pitchClasses[p][0]
\* (the _Last variant takes the last pitch of the class)
canonicalPitch_Last(p) == PitchClasses[p + 1][Len(PitchClasses[p + 1])]
canonicalPitch(p) == PitchClasses[p + 1][1]

\* labels[s] >> p & 1
\* (the _NoMask variant tests every bit from p upwards)
Bit_NoMask(label, p) == label \div (2 ^ p)
Bit(label, p) == (label \div (2 ^ p)) % 2

RECURSIVE DrumsScan(_, _, _, _)
DrumsScan(labels, step, p, acc) ==
    IF step \notin DOMAIN labels THEN acc
    ELSE IF p >= NumClasses THEN DrumsScan(labels, step + 1, 0, acc)
    ELSE DrumsScan(labels, step, p + 1,
            IF Bit(labels[step], p) # 0
            THEN Append(acc, Note(canonicalPitch(p), step, step + 1))
            ELSE acc)

DrumsArgMax ==
    /\ conv = "DrumsConverter"
    /\ pc = "given"
    /\ live' = live \cup {<<"labelsTensor", 0>>}
    /\ decoded' = <<>>
    /\ pc' = "await"
    /\ UNCHANGED <<conv, notes, tensor, s, err>>

DrumsDataResolved ==
    /\ conv = "DrumsConverter"
    /\ pc = "await"
    /\ live' = live \ {<<"labelsTensor", 0>>}
    /\ decoded' = DrumsScan(Labels(tensor), 0, 0, <<>>)
    /\ pc' = "done"
    /\ UNCHANGED <<conv, notes, tensor, s, err>>

DrumsDataRejected ==
    /\ conv = "DrumsConverter"
    /\ pc = "await"
    /\ err' = "DataError"
    /\ pc' = "failed"
    /\ UNCHANGED <<conv, notes, tensor, decoded, live, s>>

----------------------------------------------------------------------------
(* DrumRollConverter.toNoteSequence                                        *)

\* The caller drops the final column of the drum roll, giving the tensor
\* the class comment of DrumRollConverter expects.
WithoutLastColumn(t) ==
    Tensor2D(t.rows, t.cols - 1,
        [i \in 0 .. (t.rows * (t.cols - 1) - 1) |->
            At(t, i \div (t.cols - 1), i % (t.cols - 1))])

DrumRollDropNOR ==
    /\ conv = "DrumRollConverter"
    /\ pc = "encoded"
    /\ tensor' = WithoutLastColumn(tensor)
    /\ pc' = "stripped"
    /\ UNCHANGED <<conv, notes, decoded, live, s, err>>

\* The loop over pitches of one row.  this.pitchClasses[p] is `undefined`
\* for p >= pitchClasses.length, and reading its [0] throws a TypeError.
RECURSIVE RollRowScan(_, _, _, _)
RollRowScan(pitches, step, p, st) ==
    IF p \notin DOMAIN pitches \/ st.err # "none" THEN st
    ELSE IF pitches[p] # 0
    THEN IF p < NumClasses
         THEN RollRowScan(pitches, step, p + 1,
                [st EXCEPT !.notes =
                    Append(@, Note(canonicalPitch(p), step, step + 1))])
         ELSE [st EXCEPT !.err = "TypeError"]
    ELSE RollRowScan(pitches, step, p + 1, st)

\* The call runs to the first await: the slice of row 0 is created.
DrumRollCall ==
    /\ conv = "DrumRollConverter"
    /\ pc \in {"encoded", "stripped"}
    /\ decoded' = <<>>
    /\ s' = 0
    /\ IF 0 < tensor.rows
       THEN live' = live \cup {<<"rollSlice", 0>>} /\ pc' = "await"
       ELSE live' = live /\ pc' = "done"
    /\ UNCHANGED <<conv, notes, tensor, err>>

\* data() of the slice resolves: dispose it, scan the row, and go on to the
\* next row's slice and await, or return after the last row.
DrumRollDataResolved ==
    /\ conv = "DrumRollConverter"
    /\ pc = "await"
    /\ LET st == RollRowScan(Row(tensor, s), s, 0, [notes |-> decoded, err |-> "none"])
       IN IF st.err # "none"
          THEN /\ err' = st.err
               /\ pc' = "failed"
               /\ live' = live \ {<<"rollSlice", s>>}
               /\ UNCHANGED <<decoded, s>>
          ELSE /\ decoded' = st.notes
               /\ s' = s + 1
               /\ err' = err
               /\ IF s + 1 < tensor.rows
                  THEN /\ live' = (live \ {<<"rollSlice", s>>}) \cup {<<"rollSlice", s + 1>>}
                       /\ pc' = "await"
                  ELSE /\ live' = live \ {<<"rollSlice", s>>}
                       /\ pc' = "done"
    /\ UNCHANGED <<conv, notes, tensor>>

DrumRollDataRejected ==
    /\ conv = "DrumRollConverter"
    /\ pc = "await"
    /\ err' = "DataError"
    /\ pc' = "failed"
    /\ UNCHANGED <<conv, notes, tensor, decoded, live, s>>

----------------------------------------------------------------------------
(* The calls made on the converter.                                        *)

StepPairs(maxStart, maxEnd) ==
    {p \in (0 .. maxStart) \X (1 .. maxEnd) : p[1] < p[2]}

\* Quantized melody notes: a positive length, possibly past numSteps.
MelodyNotes ==
    {Note(p, se[1], se[2]) : p \in MelodyPitches, se \in StepPairs(NumSteps, NumSteps + 1)}

\* Quantized drum hits, one step long, possibly at numSteps.
DrumNotes ==
    {Note(p, start, start + 1) : p \in DrumPitches, start \in 0 .. NumSteps}

SeqsUpTo(S, n) == UNION {[1 .. k -> S] : k \in 0 .. n}

\* One-hot rows of width 2^classes, as a MusicVAE decoder outputs them.
OneHotTensors ==
    LET width == 2 ^ NumClasses IN
    {Tensor2D(NumSteps, width,
        [i \in 0 .. (NumSteps * width - 1) |-> IF labels[i \div width] = i % width THEN 1 ELSE 0]) :
        labels \in [0 .. (NumSteps - 1) -> 0 .. (width - 1)]}

\* toTensor of a MelodyConverter on a caller's sequence.
InitMelody ==
    /\ conv = "MelodyConverter"
    /\ notes \in SeqsUpTo(MelodyNotes, MaxNotes)
    /\ tensor = NoTensor
    /\ pc = "ready"

\* toTensor of a DrumsConverter or DrumRollConverter on a caller's sequence.
InitDrums ==
    /\ conv \in {"DrumsConverter", "DrumRollConverter"}
    /\ notes \in SeqsUpTo(DrumNotes, MaxNotes)
    /\ tensor = NoTensor
    /\ pc = "ready"

\* toNoteSequence of a DrumsConverter on a model output.
InitDrumsDecode ==
    /\ conv = "DrumsConverter"
    /\ notes = <<>>
    /\ tensor \in OneHotTensors
    /\ pc = "given"

Init ==
    /\ InitMelody \/ InitDrums \/ InitDrumsDecode
    /\ decoded = <<>>
    /\ live = {}
    /\ s = 0
    /\ err = "none"

Next ==
    \/ MelodyToTensor
    \/ MelodyArgMax
    \/ MelodyDataResolved
    \/ MelodyDataRejected
    \/ DrumsToTensor
    \/ DrumsArgMax
    \/ DrumsDataResolved
    \/ DrumsDataRejected
    \/ DrumRollDropNOR
    \/ DrumRollCall
    \/ DrumRollDataResolved
    \/ DrumRollDataRejected

Spec == Init /\ [][Next]_vars

----------------------------------------------------------------------------
(* Properties of MelodyConverter.                                          *)

IsMelody == conv = "MelodyConverter"

\* The label a one-hot row encodes; -1 if the row is not one-hot.
OneHotLabel(t, r) ==
    LET ones == {c \in 0 .. (t.cols - 1) : At(t, r, c) = 1} IN
    IF Cardinality(ones) = 1 /\ \A c \in 0 .. (t.cols - 1) : At(t, r, c) \in {0, 1}
    THEN CHOOSE c \in ones : TRUE
    ELSE -1

Triples(seq) ==
    {<<seq[i].pitch, seq[i].quantizedStartStep, seq[i].quantizedEndStep>> :
        i \in 1 .. Len(seq)}

PitchWithinBounds(n) == MinPitch <= n.pitch /\ n.pitch <= MaxPitch

NonOverlapping(seq) ==
    \A i, j \in 1 .. Len(seq) :
        i # j => \/ seq[i].quantizedEndStep <= seq[j].quantizedStartStep
                 \/ seq[j].quantizedEndStep <= seq[i].quantizedStartStep

WithinTimeline(seq) ==
    \A i \in 1 .. Len(seq) :
        0 <= seq[i].quantizedStartStep /\ seq[i].quantizedEndStep <= NumSteps

RoundTripInput(seq) ==
    /\ NonOverlapping(seq)
    /\ WithinTimeline(seq)
    /\ \A i \in 1 .. Len(seq) : PitchWithinBounds(seq[i])

\* C1: for a monophonic sequence with every pitch in [minPitch, maxPitch]
\* and every note within the timeline, toTensor does not raise and
\* toNoteSequence of its tensor returns exactly the input's
\* (pitch, startStep, endStep) tuples, one note each.
MelodyRoundTrip ==
    (IsMelody /\ pc # "ready" /\ RoundTripInput(notes)) =>
        /\ pc # "raised"
        /\ pc = "done" => /\ Triples(decoded) = Triples(notes)
                          /\ Len(decoded) = Len(notes)

\* Two notes of different pitch, the second starting where the first ends
\* and ending at the end of the timeline, have made the round trip.
MelodyRoundTripWitness ==
    /\ IsMelody /\ pc = "done" /\ RoundTripInput(notes)
    /\ Len(notes) = 2
    /\ notes[1].quantizedEndStep = notes[2].quantizedStartStep
    /\ notes[2].quantizedEndStep = NumSteps
    /\ notes[1].pitch # notes[2].pitch

\* In the order toTensor visits the notes: note j starts before the end of
\* the note before it.
OverlapAt(seq, j) ==
    j >= 2 /\ seq[j].quantizedStartStep < seq[j - 1].quantizedEndStep

\* Two notes of which, sorted by start step, the second starts before the
\* end of the first.
HasOverlap(seq) ==
    \E i, j \in 1 .. Len(seq) :
        /\ i < j
        /\ seq[j].quantizedStartStep < seq[i].quantizedEndStep

HasPitchOutOfBounds(seq) == \E i \in 1 .. Len(seq) : ~PitchWithinBounds(seq[i])

\* No two notes start at the same step, so the sorted order is unique.
DistinctStarts(seq) ==
    \A i, j \in 1 .. Len(seq) :
        i # j => seq[i].quantizedStartStep # seq[j].quantizedStartStep

\* C4 as stated, on inputs whose sorted order is unique: toTensor raises
\* NotMonophonic, and returns no tensor, whenever the input holds two
\* overlapping notes.
MonophonyGuard ==
    (IsMelody /\ pc # "ready" /\ DistinctStarts(notes) /\ HasOverlap(notes)) =>
        pc = "raised" /\ err = "NotMonophonic" /\ tensor = NoTensor

\* C4 amended: whenever the input holds two overlapping notes, toTensor
\* raises and returns no tensor; the error is NotMonophonic exactly when, in
\* sorted order, every note before the first overlapping one has its pitch
\* in range, and OutOfRange otherwise.
MonophonyGuardAmended ==
    (IsMelody /\ pc # "ready" /\ HasOverlap(notes)) =>
        /\ pc = "raised" /\ tensor = NoTensor
        /\ err \in {"NotMonophonic", "OutOfRange"}
        /\ err = "NotMonophonic" <=>
              \E j \in 1 .. Len(notes) :
                  /\ OverlapAt(notes, j)
                  /\ \A i \in 1 .. (j - 1) : PitchWithinBounds(notes[i])

\* NotMonophonic was raised for a note whose pitch is also out of range.
MonophonyGuardWitness ==
    /\ IsMelody /\ pc = "raised" /\ err = "NotMonophonic"
    /\ Len(notes) = 2 /\ OverlapAt(notes, 2)
    /\ PitchWithinBounds(notes[1]) /\ ~PitchWithinBounds(notes[2])

\* C5 as stated, on inputs whose sorted order is unique: toTensor raises
\* OutOfRange, and returns no tensor, whenever the input holds a note with
\* pitch below minPitch or above maxPitch.
RangeGuard ==
    (IsMelody /\ pc # "ready" /\ DistinctStarts(notes) /\ HasPitchOutOfBounds(notes)) =>
        pc = "raised" /\ err = "OutOfRange" /\ tensor = NoTensor

\* C5 amended: whenever the input holds a note with pitch out of range,
\* toTensor raises and returns no tensor; the error is OutOfRange exactly
\* when, in sorted order, no note up to and including the first one out of
\* range starts before the end of the note before it, and NotMonophonic
\* otherwise.
RangeGuardAmended ==
    (IsMelody /\ pc # "ready" /\ HasPitchOutOfBounds(notes)) =>
        /\ pc = "raised" /\ tensor = NoTensor
        /\ err \in {"NotMonophonic", "OutOfRange"}
        /\ err = "OutOfRange" <=>
              \E k \in 1 .. Len(notes) :
                  /\ ~PitchWithinBounds(notes[k])
                  /\ \A i \in 1 .. k : ~OverlapAt(notes, i)

\* OutOfRange was raised for a pitch below minPitch, after a note in range.
RangeGuardWitness ==
    /\ IsMelody /\ pc = "raised" /\ err = "OutOfRange"
    /\ Len(notes) = 2
    /\ PitchWithinBounds(notes[1]) /\ notes[2].pitch < MinPitch

StartsAt(seq, r) == {i \in 1 .. Len(seq) : seq[i].quantizedStartStep = r}
EndsAt(seq, r) == {i \in 1 .. Len(seq) : seq[i].quantizedEndStep = r}

\* C9 as stated: after a successful toTensor the row at each note's start
\* is the one-hot of pitch - minPitch + 2, the row at each note's end is the
\* one-hot of 1, and every other row is the one-hot of 0.
MelodyLabelLayout ==
    (IsMelody /\ pc = "encoded") =>
        \A r \in 0 .. (NumSteps - 1) :
            /\ \A i \in StartsAt(notes, r) :
                   OneHotLabel(tensor, r) = notes[i].pitch - MinPitch + 2
            /\ \A i \in EndsAt(notes, r) : OneHotLabel(tensor, r) = 1
            /\ (StartsAt(notes, r) = {} /\ EndsAt(notes, r) = {}) =>
                   OneHotLabel(tensor, r) = 0

\* C9 amended: after a successful toTensor the result has numSteps one-hot
\* rows of width depth; the row at a note's start is the one-hot of
\* pitch - minPitch + 2; the row at a note's end is the one-hot of 1 unless
\* another note starts there; every other row is the one-hot of 0.
MelodyLabelLayoutAmended ==
    (IsMelody /\ pc = "encoded") =>
        /\ tensor.rows = NumSteps /\ tensor.cols = depth
        /\ \A r \in 0 .. (NumSteps - 1) :
            /\ \A i \in StartsAt(notes, r) :
                   OneHotLabel(tensor, r) = notes[i].pitch - MinPitch + 2
            /\ StartsAt(notes, r) = {} =>
                   OneHotLabel(tensor, r) = IF EndsAt(notes, r) # {} THEN 1 ELSE 0

\* A note followed at once by another that ends before the last step.
MelodyLabelLayoutWitness ==
    /\ IsMelody /\ pc = "encoded"
    /\ Len(notes) = 2
    /\ notes[1].quantizedEndStep = notes[2].quantizedStartStep
    /\ notes[2].quantizedEndStep < NumSteps

----------------------------------------------------------------------------
(* Properties of DrumsConverter and DrumRollConverter.                     *)

\* The classes (numbered from 0) whose list holds pitch p.
ClassesOf(p) ==
    {c \in 0 .. (NumClasses - 1) :
        \E k \in 1 .. Len(PitchClasses[c + 1]) : PitchClasses[c + 1][k] = p}

FirstPitch(c) == Head(PitchClasses[c + 1])

\* The (step, class) cells the notes of seq hit.
ActiveCells(seq) ==
    UNION {{<<seq[i].quantizedStartStep, c>> : c \in ClassesOf(seq[i].pitch)} :
              i \in 1 .. Len(seq)}

DrumInput(seq) ==
    \A i \in 1 .. Len(seq) :
        /\ ClassesOf(seq[i].pitch) # {}
        /\ seq[i].quantizedStartStep \in 0 .. (NumSteps - 1)

\* seq holds exactly one one-step note of the class's first pitch per cell.
OneNotePerCell(seq, cells) ==
    /\ Triples(seq) = {<<FirstPitch(cell[2]), cell[1], cell[1] + 1>> : cell \in cells}
    /\ Len(seq) = Cardinality(cells)

\* C2 as stated: DrumRollConverter.toNoteSequence, given the tensor toTensor
\* returned, completes and returns one note per active (step, class) cell.
DrumRollRoundTrip ==
    (conv = "DrumRollConverter" /\ tensor.cols = NumClasses + 1 /\ DrumInput(notes)) =>
        /\ err # "TypeError"
        /\ pc = "done" => OneNotePerCell(decoded, ActiveCells(notes))

\* C2 amended: DrumRollConverter.toNoteSequence, given the tensor toTensor
\* returned with its final column removed, completes and returns one note
\* per active (step, class) cell.
DrumRollRoundTripAmended ==
    (conv = "DrumRollConverter" /\ tensor.cols = NumClasses /\ DrumInput(notes)) =>
        /\ err # "TypeError"
        /\ pc = "done" => OneNotePerCell(decoded, ActiveCells(notes))

\* Two hits at one step, of different classes, one by a pitch that is not
\* the first of its class, have made the round trip.
DrumRollRoundTripWitness ==
    /\ conv = "DrumRollConverter" /\ tensor.cols = NumClasses /\ DrumInput(notes)
    /\ pc = "done"
    /\ Len(notes) = 2 /\ Len(decoded) = 2
    /\ notes[1].quantizedStartStep = notes[2].quantizedStartStep
    /\ \E i \in 1 .. 2 : \A c \in ClassesOf(notes[i].pitch) : notes[i].pitch # FirstPitch(c)

\* C3: in the tensor toTensor returns, the final column of a row is 1 iff
\* every class column of the row is 0.
NORColumn ==
    (IsDrums /\ pc = "encoded") =>
        \A r \in 0 .. (NumSteps - 1) :
            At(tensor, r, NumClasses) = 1 <=>
                \A c \in 0 .. (NumClasses - 1) : At(tensor, r, c) = 0

\* C6: toTensor raises UnknownPitch, and returns no tensor, whenever the
\* input holds a note whose pitch is in no class.
UnknownPitchRaises ==
    (IsDrums /\ pc # "ready" /\ \E i \in 1 .. Len(notes) : ClassesOf(notes[i].pitch) = {}) =>
        err = "UnknownPitch" /\ tensor = NoTensor

RECURSIVE SumOfPowers(_)
SumOfPowers(S) ==
    IF S = {} THEN 0
    ELSE LET p == CHOOSE x \in S : TRUE IN 2 ^ p + SumOfPowers(S \ {p})

\* The set of classes a label stands for: bit p of the label is class p.
ClassesOfLabel(label) ==
    CHOOSE S \in SUBSET (0 .. (NumClasses - 1)) : SumOfPowers(S) = label

\* C10: DrumsConverter.toNoteSequence of a one-hot tensor returns, for each
\* step and class, one note of the class's first pitch spanning that step if
\* the class's bit of the row's label is set, and nothing else.
DrumsDecode ==
    (conv = "DrumsConverter" /\ pc = "done") =>
        OneNotePerCell(decoded,
            {<<r, c>> \in (0 .. (NumSteps - 1)) \X (0 .. (NumClasses - 1)) :
                c \in ClassesOfLabel(OneHotLabel(tensor, r))})

\* A tensor whose rows include the label of all classes and the label of
\* the last class alone has been decoded.
DrumsDecodeWitness ==
    /\ conv = "DrumsConverter" /\ pc = "done"
    /\ \E r \in 0 .. (NumSteps - 1) : OneHotLabel(tensor, r) = 2 ^ NumClasses - 1
    /\ \E r \in 0 .. (NumSteps - 1) : OneHotLabel(tensor, r) = 2 ^ (NumClasses - 1)

----------------------------------------------------------------------------
(* Properties of every converter.                                          *)

\* C7, on inputs whose sorted order is unique: a call of toTensor leaves the
\* caller's note sequence as it was, the order of its notes included.
ToTensorKeepsNotes == [][DistinctStarts(notes) => notes' = notes]_vars

\* C8: when toNoteSequence completes, by returning or by raising, every
\* temporary tensor it created has been disposed.
TemporariesDisposed == pc \in {"done", "failed"} => live = {}

====
